---- MODULE Spec2Model ----
(***************************************************************************)
(* A model of html_jparser/core.py: the tree builder (CustomHTMLParser),   *)
(* the query front end with its path cache (HtmlParser), the selector      *)
(* parser and predicate test (Selector) and the tag node (HtmlTag).        *)
(*                                                                         *)
(* Python strings are modelled as sequences of one-character strings, so   *)
(* that slicing, splitting and the formatting / parsing of integers are    *)
(* computed the way the code computes them.  Objects live in `heap`, a     *)
(* sequence of HtmlTag records; an object's identity is its index, and     *)
(* None is 0.  A call that raises is recorded with the exception's name.   *)
(*                                                                         *)
(* Four specifications share the operators:                                *)
(*   Spec        the builder fed any open and close events, then paths     *)
(*               taken and resolved on the finished tree;                  *)
(*   SpecStream  the builder fed a stream chosen beforehand, with text and *)
(*               comment events;                                           *)
(*   SpecSel     selectors constructed from tokens and tested on nodes;    *)
(*   SpecQuery   HtmlParser: parse, re-parse, select, the path cache.      *)
(***************************************************************************)
EXTENDS Integers, Sequences, FiniteSets, TLC

VARIABLES
    heap,        \* every HtmlTag object created so far, by identity
    p_root,      \* CustomHTMLParser.root
    cur_tag,     \* CustomHTMLParser.cur_tag
    exc,         \* the exception that ended the running call, or NoExc
    phase,       \* "feeding": events arrive; "ready": feed has returned
    root,        \* HtmlParser.root
    cache_dict,  \* HtmlParser.cache_dict
    cache_root,  \* history: for each cached query, the root its paths were taken under
    nparse,      \* history: number of re-parses
    op,          \* the last call made on the finished tree, with its arguments
    ret,         \* what that call returned
    content,     \* the event stream of a scripted parse (empty when events are free)
    pos,         \* the position in content of the next event to feed
    nopen,       \* history: number of open events fed
    strict,      \* history: every close so far named the cursor itself
    enclosing,   \* history: every close so far named an element open at the time
    unmatched,   \* history: the last event was a close naming no open element
    event,       \* history: the last event handed to a handler, one at a time
    cmd,         \* Selector.cmd of the selector under test
    sel,         \* the Selector constructed from cmd
    res,         \* the last result of Selector.check_html_tag
    work,        \* the Queue q of a running HtmlTag.select
    found        \* the list results of a running HtmlTag.select

vars == <<heap, p_root, cur_tag, exc, phase, root, cache_dict, cache_root, nparse, op, ret,
          content, pos, nopen, strict, enclosing, unmatched, event,
          cmd, sel, res, work, found>>

buildVars == <<heap, p_root, cur_tag, exc, phase, content, pos, nopen,
               strict, enclosing, unmatched, event>>
queryVars == <<root, cache_dict, cache_root, nparse, op, ret>>
selVars   == <<cmd, sel, res>>
searchVars == <<work, found>>

(***************************************************************************)
(* Bounds of the model.                                                    *)
(***************************************************************************)
MaxNodes == 4   \* open events of a parse whose events are free
MaxNoteNodes == 3   \* open events of a parse with text and comments
MaxNotes == 1   \* text and comment events of such a parse

None  == 0
NoExc == "none"

(***************************************************************************)
(* Strings.                                                                *)
(***************************************************************************)
S_root  == <<"r", "o", "o", "t">>
S_div   == <<"d", "i", "v">>
S_span  == <<"s", "p", "a", "n">>
S_em    == <<"e", "m">>
S_p     == <<"p">>
S_a     == <<"a">>
S_class == <<"c", "l", "a", "s", "s">>
S_id    == <<"i", "d">>
S_x     == <<"x">>

\* s[lo:hi] of Python for 0 <= lo, with hi clipped to the length (0-based, hi excluded)
Slice(s, lo, hi) ==
    LET h == IF hi > Len(s) THEN Len(s) ELSE hi
    IN  IF lo >= h THEN <<>> ELSE SubSeq(s, lo + 1, h)

\* c in s, for a one-character c
InStr(c, s) == \E i \in 1..Len(s) : s[i] = c

RECURSIVE SplitFrom(_, _, _, _, _)
SplitFrom(s, sep, i, cur, acc) ==
    IF i > Len(s) THEN Append(acc, cur)
    ELSE IF s[i] = sep THEN SplitFrom(s, sep, i + 1, <<>>, Append(acc, cur))
    ELSE SplitFrom(s, sep, i + 1, Append(cur, s[i]), acc)

\* s.split(sep) for a one-character sep: empty pieces are kept
Split(s, sep) == SplitFrom(s, sep, 1, <<>>, <<>>)

(***************************************************************************)
(* HtmlTag.                                                                *)
(***************************************************************************)
\* An attribute value is a plain string, or the list of class tokens.
Plain(s)     == [kind |-> "str", v |-> s]
ClassList(l) == [kind |-> "list", v |-> l]

\* HtmlTag.__init__
HtmlTag(tag, attrs, parent) ==
    [tag |-> tag, attrs |-> attrs, parent |-> parent,
     children |-> <<>>, comments |-> <<>>, text |-> <<>>]

\* HtmlTag.add_child, on the object n of heap h
add_child(h, n, c) == [h EXCEPT ![n].children = Append(@, c)]

\* HtmlTag.add_comment
add_comment(h, n, c) == [h EXCEPT ![n].comments = Append(@, c)]

(***************************************************************************)
(* CustomHTMLParser: the tree builder.  A builder b is the record          *)
(* [heap, root, cur_tag, exc]; each handler maps a builder to the builder  *)
(* after the event.  An exception leaves the assignments made before it.   *)
(***************************************************************************)
\* CustomHTMLParser.__init__: a new root object, the cursor on it
NewParser(h) ==
    [heap |-> Append(h, HtmlTag(S_root, <<>>, None)),
     root |-> Len(h) + 1, cur_tag |-> Len(h) + 1, exc |-> NoExc]

\* dict(attrs) for a list of (key, value) pairs: a later pair overwrites an earlier one
DictOf(pairs) ==
    [k \in {pairs[i][1] : i \in 1..Len(pairs)} |->
        LET last == CHOOSE i \in 1..Len(pairs) :
                        /\ pairs[i][1] = k
                        /\ \A j \in (i + 1)..Len(pairs) : pairs[j][1] # k
        IN  Plain(pairs[last][2])]

\* the attrs of handle_starttag, lines 13-15: 'class' becomes the list of its tokens
StartAttrs(pairs) ==
    LET d == DictOf(pairs)
    IN  IF S_class \in DOMAIN d
        THEN [d EXCEPT ![S_class] = ClassList(Split(d[S_class].v, " "))]
        ELSE d

handle_starttag(b, tag, attrs) ==
    LET t  == Len(b.heap) + 1
        h1 == Append(b.heap, HtmlTag(tag, StartAttrs(attrs), b.cur_tag))
    IN  IF b.cur_tag = None
        THEN [b EXCEPT !.heap = h1, !.exc = "AttributeError"]
        ELSE [b EXCEPT !.heap = add_child(h1, b.cur_tag, t), !.cur_tag = t]

\* the while loop with the test after the body: the target's children are taken too
RECURSIVE EndWalk_takes_target(_, _, _, _)
EndWalk_takes_target(h, cur, tags, tag) ==
    IF cur = None THEN [heap |-> h, cur_tag |-> cur, tags |-> tags, exc |-> "AttributeError"]
    ELSE IF h[cur].tag = tag
         THEN [heap |-> [h EXCEPT ![cur].children = <<>>], cur_tag |-> cur,
               tags |-> <<>>, exc |-> NoExc]
    ELSE EndWalk_takes_target([h EXCEPT ![cur].children = <<>>], h[cur].parent,
                              tags \o h[cur].children, tag)

\* the while loop without line 25: the nodes passed keep their child lists
RECURSIVE EndWalk_keeps_children(_, _, _, _)
EndWalk_keeps_children(h, cur, tags, tag) ==
    IF cur = None THEN [heap |-> h, cur_tag |-> cur, tags |-> tags, exc |-> "AttributeError"]
    ELSE IF h[cur].tag = tag THEN [heap |-> h, cur_tag |-> cur, tags |-> tags, exc |-> NoExc]
    ELSE EndWalk_keeps_children(h, h[cur].parent, tags \o h[cur].children, tag)

\* the for loop without line 29: the orphans keep their old parent
RECURSIVE Reparent_keeps_parent(_, _, _, _)
Reparent_keeps_parent(h, tags, i, target) ==
    IF i > Len(tags) THEN h
    ELSE Reparent_keeps_parent([h EXCEPT ![tags[i]].children = <<>>], tags, i + 1, target)

\* the while loop of handle_endtag, lines 23-26; reading None.tag raises
RECURSIVE EndWalk(_, _, _, _)
EndWalk(h, cur, tags, tag) ==
    IF cur = None THEN [heap |-> h, cur_tag |-> cur, tags |-> tags, exc |-> "AttributeError"]
    ELSE IF h[cur].tag = tag THEN [heap |-> h, cur_tag |-> cur, tags |-> tags, exc |-> NoExc]
    ELSE EndWalk([h EXCEPT ![cur].children = <<>>], h[cur].parent,
                 tags \o h[cur].children, tag)

\* the for loop of handle_endtag, lines 28-30
RECURSIVE Reparent(_, _, _, _)
Reparent(h, tags, i, target) ==
    IF i > Len(tags) THEN h
    ELSE Reparent([h EXCEPT ![tags[i]].parent = target, ![tags[i]].children = <<>>],
                  tags, i + 1, target)

\* handle_endtag without line 32: the orphans are never appended to the target
handle_endtag_drops_orphans(b, tag) ==
    LET w == EndWalk(b.heap, b.cur_tag, <<>>, tag)
    IN  IF w.exc # NoExc
        THEN [b EXCEPT !.heap = w.heap, !.cur_tag = w.cur_tag, !.exc = w.exc]
        ELSE LET h1 == Reparent(w.heap, w.tags, 1, w.cur_tag)
             IN  [b EXCEPT !.heap = h1, !.cur_tag = h1[w.cur_tag].parent]

handle_endtag(b, tag) ==
    LET w == EndWalk(b.heap, b.cur_tag, <<>>, tag)
    IN  IF w.exc # NoExc
        THEN [b EXCEPT !.heap = w.heap, !.cur_tag = w.cur_tag, !.exc = w.exc]
        ELSE LET h1 == Reparent(w.heap, w.tags, 1, w.cur_tag)
                 h2 == [h1 EXCEPT ![w.cur_tag].children = @ \o w.tags]
             IN  [b EXCEPT !.heap = h2, !.cur_tag = h2[w.cur_tag].parent]

handle_data(b, data) ==
    IF b.cur_tag = None THEN [b EXCEPT !.exc = "AttributeError"]
    ELSE [b EXCEPT !.heap = [b.heap EXCEPT ![b.cur_tag].text = @ \o data]]

handle_comment(b, data) ==
    IF b.cur_tag = None THEN [b EXCEPT !.exc = "AttributeError"]
    ELSE [b EXCEPT !.heap = add_comment(b.heap, b.cur_tag, data)]

\* one tokenizer event, dispatched to its handler
Handle(b, e) ==
    CASE e.type = "open"    -> handle_starttag(b, e.name, e.attrs)
      [] e.type = "close"   -> handle_endtag(b, e.name)
      [] e.type = "text"    -> handle_data(b, e.data)
      [] e.type = "comment" -> handle_comment(b, e.data)

OpenEv(name, attrs) == [type |-> "open", name |-> name, attrs |-> attrs]
CloseEv(name)       == [type |-> "close", name |-> name]
TextEv(data)        == [type |-> "text", data |-> data]
CommentEv(data)     == [type |-> "comment", data |-> data]

(***************************************************************************)
(* Reading the tree.                                                       *)
(***************************************************************************)
\* the cursor's ancestor chain: cur, cur.parent, ... up to the root
RECURSIVE Chain(_, _)
Chain(h, n) == IF n = None THEN <<>> ELSE <<n>> \o Chain(h, h[n].parent)

\* the nodes found from n by following child lists, n included (with repetition)
RECURSIVE Subtree(_, _)
RECURSIVE SubtreeOfAll(_, _, _)
Subtree(h, n) == <<n>> \o SubtreeOfAll(h, h[n].children, 1)
SubtreeOfAll(h, cs, i) ==
    IF i > Len(cs) THEN <<>> ELSE Subtree(h, cs[i]) \o SubtreeOfAll(h, cs, i + 1)

Range(s) == {s[i] : i \in 1..Len(s)}

\* the descendants of n, n excluded
Descendants(h, n) == Range(SubtreeOfAll(h, h[n].children, 1))

(***************************************************************************)
(* Path addressing: HtmlTag.get_path and HtmlParser.get_tag / get_tags.    *)
(***************************************************************************)
Digits == <<"0", "1", "2", "3", "4", "5", "6", "7", "8", "9">>

\* f'{i}' for i >= 0
RECURSIVE IntToStr(_)
IntToStr(i) ==
    IF i < 10 THEN <<Digits[i + 1]>>
    ELSE IntToStr(i \div 10) \o <<Digits[(i % 10) + 1]>>

IsDigit(c) == \E d \in 1..10 : Digits[d] = c
DigitVal(c) == (CHOOSE d \in 1..10 : Digits[d] = c) - 1

RECURSIVE DigitsVal(_, _)
DigitsVal(s, acc) ==
    IF s = <<>> THEN acc ELSE DigitsVal(Tail(s), 10 * acc + DigitVal(Head(s)))

\* int(s): an optional sign and at least one digit, or ValueError
ParseInt(s) ==
    LET signed == s # <<>> /\ Head(s) \in {"-", "+"}
        body   == IF signed THEN Tail(s) ELSE s
    IN  IF body = <<>> \/ \E i \in 1..Len(body) : ~IsDigit(body[i])
        THEN [exc |-> "ValueError", val |-> 0]
        ELSE [exc |-> NoExc,
              val |-> IF signed /\ Head(s) = "-" THEN 0 - DigitsVal(body, 0)
                      ELSE DigitsVal(body, 0)]

\* the index counted from 1, as enumerate(children, 1) would
IndexInParent_from_one(h, n) ==
    LET cs == h[h[n].parent].children
    IN  IF \E i \in 1..Len(cs) : cs[i] = n
        THEN CHOOSE i \in 1..Len(cs) : cs[i] = n /\ \A j \in 1..(i - 1) : cs[j] # n
        ELSE -1

\* the index of the first child of n's parent that is n, lines 250-253; -1 if none
IndexInParent(h, n) ==
    LET cs == h[h[n].parent].children
    IN  IF \E i \in 1..Len(cs) : cs[i] = n
        THEN (CHOOSE i \in 1..Len(cs) : cs[i] = n /\ \A j \in 1..(i - 1) : cs[j] # n) - 1
        ELSE -1

\* the while loop of get_path: path grows to the left on the way up
RECURSIVE PathUp(_, _, _)
PathUp(h, cur, path) ==
    IF h[cur].parent = None THEN path
    ELSE LET i == IndexInParent(h, cur)
         IN  PathUp(h, h[cur].parent,
                    IF i >= 0 THEN <<":">> \o IntToStr(i) \o path ELSE path)

\* HtmlTag.get_path: the colon-joined child indices from the root down to n
get_path(h, n) == Slice(PathUp(h, n, <<>>), 1, Len(PathUp(h, n, <<>>)))

\* list(map(int, path.split(':'))): the first piece that is no integer raises
RECURSIVE IndexList(_, _, _)
IndexList(parts, i, acc) ==
    IF i > Len(parts) THEN [exc |-> NoExc, val |-> acc]
    ELSE LET v == ParseInt(parts[i])
         IN  IF v.exc # NoExc THEN [exc |-> v.exc, val |-> acc]
             ELSE IndexList(parts, i + 1, Append(acc, v.val))

\* seq[index] of a Python list: a negative index counts from the end
ListIndex(cs, index) ==
    IF index >= 0 /\ index < Len(cs) THEN [exc |-> NoExc, val |-> cs[index + 1]]
    ELSE IF index < 0 /\ 0 - index <= Len(cs)
         THEN [exc |-> NoExc, val |-> cs[Len(cs) + index + 1]]
    ELSE [exc |-> "IndexError", val |-> None]

\* the for loop of get_tag, lines 75-76
RECURSIVE WalkDown(_, _, _, _)
WalkDown(h, tag, index_list, i) ==
    IF i > Len(index_list) THEN [exc |-> NoExc, val |-> tag]
    ELSE LET c == ListIndex(h[tag].children, index_list[i])
         IN  IF c.exc # NoExc THEN c ELSE WalkDown(h, c.val, index_list, i + 1)

\* HtmlParser.get_tag, against the root rt
get_tag(h, rt, path) ==
    LET index_list == IndexList(Split(path, ":"), 1, <<>>)
    IN  IF index_list.exc # NoExc THEN [exc |-> index_list.exc, val |-> None]
        ELSE WalkDown(h, rt, index_list.val, 1)

\* HtmlParser.get_tags: the first failing path ends the call
RECURSIVE get_tags_from(_, _, _, _, _)
get_tags_from(h, rt, path_list, i, acc) ==
    IF i > Len(path_list) THEN [exc |-> NoExc, val |-> acc]
    ELSE LET t == get_tag(h, rt, path_list[i])
         IN  IF t.exc # NoExc THEN [exc |-> t.exc, val |-> <<>>]
             ELSE get_tags_from(h, rt, path_list, i + 1, Append(acc, t.val))

get_tags(h, rt, path_list) == get_tags_from(h, rt, path_list, 1, <<>>)

(***************************************************************************)
(* Selector: one compound-selector token parsed into tag, cls, id, attrs.  *)
(***************************************************************************)
cls_sep  == "."
id_sep   == "#"
attr_sep == <<"[", "]">>
sep      == " "

\* Selector.__clean_tag: the token up to its first separator character
RECURSIVE clean_tag_from(_, _, _)
clean_tag_from(c, seps, i) ==
    IF i > Len(c) THEN c
    ELSE IF InStr(c[i], seps) THEN Slice(c, 0, i - 1)
    ELSE clean_tag_from(c, seps, i + 1)

clean_tag(c) == clean_tag_from(c, <<cls_sep, id_sep>> \o attr_sep, 1)

\* `start = None` on line 139: no class, id or attribute has started
NoStart == -1

\* the truth value of `start` on line 142: None and 0 are both false
Truthy(start) == start # NoStart /\ start # 0

\* the loop of Selector.__clean, lines 141-149; i and start are 0-based
RECURSIVE clean_loop(_, _, _, _, _, _)
clean_loop(c, start_sep, stop_sep, i, start, cls_list) ==
    IF i >= Len(c)
    THEN IF start # NoStart THEN Append(cls_list, Slice(c, start + 1, Len(c))) ELSE cls_list
    ELSE LET ch     == c[i + 1]
             stop   == InStr(ch, stop_sep) /\ Truthy(start)
             list1  == IF stop THEN Append(cls_list, Slice(c, start + 1, i)) ELSE cls_list
             start1 == IF stop THEN NoStart ELSE start
             start2 == IF ch = start_sep THEN i ELSE start1
         IN  clean_loop(c, start_sep, stop_sep, i + 1, start2, list1)

\* Selector.__clean
clean(c, start_sep, stop_sep) ==
    IF ~InStr(start_sep, c) THEN <<>>
    ELSE clean_loop(c, start_sep, stop_sep, 0, NoStart, <<>>)

\* Selector.__clean_cls
clean_cls(c) == clean(c, cls_sep, <<cls_sep, id_sep>> \o attr_sep)

\* Selector.__clean_id
clean_id(c) ==
    LET _id == clean(c, id_sep, <<cls_sep, id_sep>> \o attr_sep)
    IN  IF Len(_id) > 0 THEN _id[1] ELSE <<>>

\* attrs_dict[key] = value
DictPut(d, key, value) ==
    [k \in DOMAIN d \cup {key} |-> IF k = key THEN value ELSE d[k]]

\* the loop of Selector.__clean_attrs, lines 172-174: `key, value = attr.split('=')`
\* unpacks exactly two pieces and raises ValueError otherwise
RECURSIVE attrs_loop(_, _, _)
attrs_loop(attrs, i, attrs_dict) ==
    IF i > Len(attrs) THEN [exc |-> NoExc, val |-> attrs_dict]
    ELSE LET kv == Split(attrs[i], "=")
         IN  IF Len(kv) # 2 THEN [exc |-> "ValueError", val |-> attrs_dict]
             ELSE attrs_loop(attrs, i + 1, DictPut(attrs_dict, kv[1], kv[2]))

\* Selector.__clean_attrs: attr_sep has two characters, so the bracket branch runs
clean_attrs(c) == attrs_loop(clean(c, attr_sep[1], <<attr_sep[2]>>), 1, <<>>)

\* Selector.__init__
Selector(c) ==
    LET a == clean_attrs(c)
    IN  [exc |-> a.exc, cmd |-> c, tag |-> clean_tag(c), cls |-> clean_cls(c),
         id |-> clean_id(c), attrs |-> a.val]

\* Selector.parse: one Selector per space-separated part; the first failure raises
RECURSIVE parse_from(_, _, _)
parse_from(parts, i, acc) ==
    IF i > Len(parts) THEN [exc |-> NoExc, val |-> acc]
    ELSE LET x == Selector(parts[i])
         IN  IF x.exc # NoExc THEN [exc |-> x.exc, val |-> <<>>]
             ELSE parse_from(parts, i + 1, Append(acc, x))

parse(c) == parse_from(Split(c, sep), 1, <<>>)

(***************************************************************************)
(* Selector.check_html_tag: the predicate test against an HtmlTag t.       *)
(***************************************************************************)
check_tag(s, t) == IF s.tag # <<>> THEN s.tag = t.tag ELSE TRUE

\* a node's attribute value equals the string v: a class list never does
AttrEq(a, v) == a.kind = "str" /\ a.v = v

check_id(s, t) ==
    IF s.id # <<>> THEN S_id \in DOMAIN t.attrs /\ AttrEq(t.attrs[S_id], s.id) ELSE TRUE

\* __check_cls with any() in place of all()
check_cls_any(s, t) ==
    IF Len(s.cls) > 0
    THEN /\ S_class \in DOMAIN t.attrs
         /\ \E i \in 1..Len(s.cls) : InStr(s.cls[i], t.attrs[S_class].v)
    ELSE TRUE

check_cls(s, t) ==
    IF Len(s.cls) > 0
    THEN /\ S_class \in DOMAIN t.attrs
         /\ \A i \in 1..Len(s.cls) : InStr(s.cls[i], t.attrs[S_class].v)
    ELSE TRUE

\* the loop of __check_attrs over the items of self.attrs
RECURSIVE check_attrs_over(_, _, _)
check_attrs_over(s, t, keys) ==
    IF keys = {} THEN TRUE
    ELSE LET key == CHOOSE k \in keys : TRUE
         IN  IF key \notin DOMAIN t.attrs \/ ~AttrEq(t.attrs[key], s.attrs[key])
             THEN FALSE
             ELSE check_attrs_over(s, t, keys \ {key})

check_attrs(s, t) == check_attrs_over(s, t, DOMAIN s.attrs)

check_html_tag(s, t) ==
    check_tag(s, t) /\ check_id(s, t) /\ check_cls(s, t) /\ check_attrs(s, t)

(***************************************************************************)
(* HtmlTag.select: the breadth-first search over (node, remaining chain).  *)
(***************************************************************************)
\* one queue item per child of n, all with the chain `selectors`
ChildItems(h, n, selectors) ==
    [i \in 1..Len(h[n].children) |->
        [html_tag |-> h[n].children[i], selectors |-> selectors]]

\* the search with a child combinator: below a match only its children are tried
RECURSIVE bfs_child_only(_, _, _, _)
bfs_child_only(h, q, results, full) ==
    IF q = <<>> THEN results
    ELSE LET data      == Head(q)
             html_tag  == data.html_tag
             selectors == data.selectors
             q1 == IF Len(selectors) = full
                   THEN Tail(q) \o ChildItems(h, html_tag, selectors)
                   ELSE Tail(q)
         IN  IF check_html_tag(selectors[1], h[html_tag])
             THEN IF Len(selectors) = 1
                  THEN bfs_child_only(h, q1, Append(results, html_tag), full)
                  ELSE bfs_child_only(h, q1 \o ChildItems(h, html_tag, Tail(selectors)),
                                      results, full)
             ELSE bfs_child_only(h, q1, results, full)

select_child_only(h, n, c) ==
    LET selectors == parse(c)
    IN  IF selectors.exc # NoExc THEN [exc |-> selectors.exc, val |-> <<>>]
        ELSE [exc |-> NoExc,
              val |-> bfs_child_only(h, <<[html_tag |-> n, selectors |-> selectors.val]>>,
                                     <<>>, Len(selectors.val))]

\* one iteration with a stack for the queue: new items go to the front
bfs_step_lifo(h, q, results) ==
    LET data      == Head(q)
        html_tag  == data.html_tag
        selectors == data.selectors
        q1        == ChildItems(h, html_tag, selectors) \o Tail(q)
    IN  IF check_html_tag(selectors[1], h[html_tag])
        THEN IF Len(selectors) = 1
             THEN [q |-> q1, results |-> Append(results, html_tag)]
             ELSE [q |-> ChildItems(h, html_tag, Tail(selectors)) \o q1,
                   results |-> results]
        ELSE [q |-> q1, results |-> results]

\* one iteration of the while loop of HtmlTag.select, lines 231-243: [q, results]
bfs_step(h, q, results) ==
    LET data      == Head(q)
        html_tag  == data.html_tag
        selectors == data.selectors
        q1        == Tail(q) \o ChildItems(h, html_tag, selectors)
    IN  IF check_html_tag(selectors[1], h[html_tag])
        THEN IF Len(selectors) = 1
             THEN [q |-> q1, results |-> Append(results, html_tag)]
             ELSE [q |-> q1 \o ChildItems(h, html_tag, Tail(selectors)),
                   results |-> results]
        ELSE [q |-> q1, results |-> results]

\* the while loop of HtmlTag.select, lines 230-243
RECURSIVE bfs(_, _, _)
bfs(h, q, results) ==
    IF q = <<>> THEN results
    ELSE bfs(h, bfs_step(h, q, results).q, bfs_step(h, q, results).results)

\* HtmlTag.select on the node n; a malformed token raises before the search starts
select(h, n, c) ==
    LET selectors == parse(c)
    IN  IF selectors.exc # NoExc THEN [exc |-> selectors.exc, val |-> <<>>]
        ELSE [exc |-> NoExc,
              val |-> bfs(h, <<[html_tag |-> n, selectors |-> selectors.val]>>, <<>>)]

(***************************************************************************)
(* HtmlParser: parse, and select with its path cache.                      *)
(***************************************************************************)
\* CustomHTMLParser.feed: the events in order; an exception ends the feed
RECURSIVE FeedAll(_, _, _)
FeedAll(b, evs, i) ==
    IF i > Len(evs) \/ b.exc # NoExc THEN b
    ELSE FeedAll(Handle(b, evs[i]), evs, i + 1)

\* the paths of the tags, lines 67-69
PathsOf(h, tags) == [i \in 1..Len(tags) |-> get_path(h, tags[i])]

\* HtmlParser.select with the cache entry written before the search runs
hp_select_writes_first(h, rt, cache, c, use_cache) ==
    IF use_cache /\ c \in DOMAIN cache
    THEN LET r == get_tags(h, rt, cache[c])
         IN  [exc |-> r.exc, val |-> r.val, cache_dict |-> cache]
    ELSE LET tags == select(h, rt, c)
         IN  IF tags.exc # NoExc
             THEN [exc |-> tags.exc, val |-> <<>>, cache_dict |-> DictPut(cache, c, <<>>)]
             ELSE [exc |-> NoExc, val |-> tags.val,
                   cache_dict |-> DictPut(cache, c, PathsOf(h, tags.val))]

\* HtmlParser.select: [exc, val, cache_dict] after the call
hp_select(h, rt, cache, c, use_cache) ==
    IF use_cache /\ c \in DOMAIN cache
    THEN LET r == get_tags(h, rt, cache[c])
         IN  [exc |-> r.exc, val |-> r.val, cache_dict |-> cache]
    ELSE LET tags == select(h, rt, c)
         IN  IF tags.exc # NoExc
             THEN [exc |-> tags.exc, val |-> <<>>, cache_dict |-> cache]
             ELSE [exc |-> NoExc, val |-> tags.val,
                   cache_dict |-> DictPut(cache, c, PathsOf(h, tags.val))]

(***************************************************************************)
(* The builder fed one event at a time, then read back through paths.      *)
(***************************************************************************)
TagNames   == {S_div, S_span}
CloseNames == TagNames \cup {S_root}
BuildAttrs == {<<>>}

NoOp  == [name |-> "none"]
NoSel == [exc |-> "unset"]
NoEvent == [type |-> "none"]
NoRes == [node |-> None, val |-> FALSE]

Builder == [heap |-> heap, root |-> p_root, cur_tag |-> cur_tag, exc |-> exc]

\* the elements open at the moment: the cursor's chain without the synthetic root
OpenElements == {n \in Range(Chain(heap, cur_tag)) : n # p_root}

InitFresh ==
    /\ heap = NewParser(<<>>).heap
    /\ p_root = NewParser(<<>>).root
    /\ cur_tag = NewParser(<<>>).cur_tag
    /\ exc = NoExc
    /\ phase = "feeding"
    /\ root = None
    /\ cache_dict = <<>>
    /\ cache_root = <<>>
    /\ nparse = 0
    /\ op = NoOp
    /\ ret = None
    /\ pos = 1
    /\ nopen = 0
    /\ strict = TRUE
    /\ enclosing = TRUE
    /\ unmatched = FALSE
    /\ event = NoEvent
    /\ work = <<>>
    /\ found = <<>>
    /\ cmd = <<>>
    /\ sel = NoSel
    /\ res = NoRes

\* a parse whose events are free: any open or close may come next
Init == InitFresh /\ content = <<>>

\* HTMLParser.feed hands event e to its handler; the history of the stream follows
Feed(e) ==
    /\ phase = "feeding"
    /\ exc = NoExc
    /\ LET b == Handle(Builder, e)
       IN  /\ heap' = b.heap
           /\ cur_tag' = b.cur_tag
           /\ exc' = b.exc
    /\ nopen' = IF e.type = "open" THEN nopen + 1 ELSE nopen
    /\ strict' = IF e.type = "close"
                 THEN strict /\ cur_tag \in OpenElements /\ heap[cur_tag].tag = e.name
                 ELSE strict
    /\ enclosing' = IF e.type = "close"
                    THEN enclosing /\ \E n \in OpenElements : heap[n].tag = e.name
                    ELSE enclosing
    /\ unmatched' = (e.type = "close" /\ ~(\E n \in OpenElements : heap[n].tag = e.name))
    /\ event' = e
    /\ UNCHANGED <<p_root, phase, content, queryVars, selVars, searchVars>>

StartTag(tag, attrs) ==
    /\ nopen < MaxNodes
    /\ Feed(OpenEv(tag, attrs))
    /\ UNCHANGED pos

EndTag(tag) ==
    /\ Feed(CloseEv(tag))
    /\ UNCHANGED pos

\* the next event of a scripted stream
FeedNext ==
    /\ pos <= Len(content)
    /\ Feed(content[pos])
    /\ pos' = pos + 1

\* CustomHTMLParser.feed returns the root and HtmlParser.parse stores it, line 60
FeedReturn ==
    /\ phase = "feeding"
    /\ exc = NoExc
    /\ pos > Len(content)
    /\ phase' = "ready"
    /\ root' = p_root
    /\ unmatched' = FALSE
    /\ UNCHANGED <<heap, p_root, cur_tag, exc, cache_dict, cache_root, nparse, op, ret,
                   content, pos,
                   nopen, strict, enclosing, event, selVars, searchVars>>

\* n.get_path() for a node n of the finished tree
GetPath(n) ==
    /\ phase = "ready"
    /\ n \in Descendants(heap, root)
    /\ op' = [name |-> "get_path", node |-> n]
    /\ ret' = get_path(heap, n)
    /\ UNCHANGED <<buildVars, root, cache_dict, cache_root, nparse, selVars, searchVars>>

\* get_tag(path) for the path the last get_path returned
GetTagOfPath ==
    /\ phase = "ready"
    /\ op.name = "get_path"
    /\ op' = [name |-> "get_tag", path |-> ret, node |-> op.node]
    /\ ret' = get_tag(heap, root, ret)
    /\ UNCHANGED <<buildVars, root, cache_dict, cache_root, nparse, selVars, searchVars>>

\* paths written by hand: indices below zero, in range and past the end
ProbePaths == {<<"-", "1">>, <<"0", ":", "-", "2">>, <<"2">>, <<"0", ":", "1">>}

\* get_tag(path) for a path the caller wrote
GetTagAt(path) ==
    /\ phase = "ready"
    /\ op' = [name |-> "get_tag", path |-> path, node |-> None]
    /\ ret' = get_tag(heap, root, path)
    /\ UNCHANGED <<buildVars, root, cache_dict, cache_root, nparse, selVars, searchVars>>

Next ==
    \/ \E tag \in TagNames, attrs \in BuildAttrs : StartTag(tag, attrs)
    \/ \E tag \in CloseNames : EndTag(tag)
    \/ FeedReturn
    \/ \E n \in 1..Len(heap) : GetPath(n)
    \/ GetTagOfPath
    \/ \E path \in ProbePaths : GetTagAt(path)

Spec == Init /\ [][Next]_vars

(***************************************************************************)
(* Free events with text and comments between the opens and closes.        *)
(***************************************************************************)
\* the text and comment events the nodes from i on have received
RECURSIVE NotesIn(_, _)
NotesIn(h, i) ==
    IF i > Len(h) THEN 0
    ELSE Len(h[i].text) + Len(h[i].comments) + NotesIn(h, i + 1)

StartTagNotes(tag) ==
    /\ nopen < MaxNoteNodes
    /\ Feed(OpenEv(tag, <<>>))
    /\ UNCHANGED pos

\* a text run of one character
Data ==
    /\ NotesIn(heap, 1) < MaxNotes
    /\ Feed(TextEv(S_x))
    /\ UNCHANGED pos

Comment ==
    /\ NotesIn(heap, 1) < MaxNotes
    /\ Feed(CommentEv(<<"c">>))
    /\ UNCHANGED pos

NextNotes ==
    \/ \E tag \in TagNames : StartTagNotes(tag)
    \/ \E tag \in CloseNames : EndTag(tag)
    \/ Data
    \/ Comment

SpecNotes == Init /\ [][NextNotes]_vars

(***************************************************************************)
(* Scripted parses: the stream is chosen first and fed event by event.     *)
(* Three opens, possibly a text or a comment, then one close, over three   *)
(* element names.                                                          *)
(***************************************************************************)
StreamNames == {S_div, S_span, S_em}
Notes       == {<<>>, <<TextEv(S_x)>>, <<CommentEv(<<"c">>)>>}

Streams ==
    {<<OpenEv(a, <<>>), OpenEv(b, <<>>), OpenEv(c, <<>>)>> \o note \o <<CloseEv(z)>> :
        a \in StreamNames, b \in StreamNames, c \in StreamNames,
        note \in Notes, z \in StreamNames \cup {S_root}}

InitStream == InitFresh /\ content \in Streams

NextStream ==
    \/ FeedNext
    \/ FeedReturn
    \/ \E n \in 1..Len(heap) : GetPath(n)
    \/ GetTagOfPath

SpecStream == InitStream /\ [][NextStream]_vars

(***************************************************************************)
(* Selectors constructed from tokens and tested against the nodes of a     *)
(* sample document.                                                        *)
(***************************************************************************)
S_foo    == <<"f", "o", "o">>
S_bar    == <<"b", "a", "r">>
S_foobar == S_foo \o <<" ">> \o S_bar
S_main   == <<"m", "a", "i", "n">>
S_datav  == <<"d", "a", "t", "a", "-", "v">>
S_k      == <<"k">>
S_y      == <<"y">>
S_xy     == S_x \o <<" ">> \o S_y

Elem(name, attrs) == <<OpenEv(name, attrs), CloseEv(name)>>

\* <div class="foo bar"></div> <div class="bar"></div> <a id="main" class="x y"
\* data-v="3"></a> <a id="main" class="x"></a> <a class="y x" k="v"></a>
\* <span k="a=b"></span> <span></span>
SampleDoc ==
    Elem(S_div, <<<<S_class, S_foobar>>>>)
    \o Elem(S_div, <<<<S_class, S_bar>>>>)
    \o Elem(S_a, <<<<S_id, S_main>>, <<S_class, S_xy>>, <<S_datav, <<"3">>>>>>)
    \o Elem(S_a, <<<<S_id, S_main>>, <<S_class, S_x>>>>)
    \o Elem(S_a, <<<<S_class, S_y \o <<" ">> \o S_x>>, <<S_k, <<"v">>>>>>)
    \o Elem(S_span, <<<<S_k, <<"a", "=", "b">>>>>>)
    \o Elem(S_span, <<>>)

Tokens ==
    { S_a \o <<"#">> \o S_main \o <<".", "x", ".", "y", "[">> \o S_datav \o <<"=", "3", "]">>,
      <<".", "x", ".", "y">>,
      S_a \o <<".", "x", ".", "y">>,
      S_div \o <<".">> \o S_foo,
      S_div \o <<".">> \o S_foo \o <<".">> \o S_bar,
      <<".">> \o S_bar,
      S_div,
      <<>>,
      <<"#">> \o S_main,
      S_a \o <<".", "x", "#">> \o S_main,
      <<".", "x", "#">> \o S_main,
      S_a \o <<"[", "k", "=", "v", "]">>,
      S_a \o <<"[", "k", "=", "v", "]", "[", "k", "=", "w", "]">>,
      S_span \o <<"[", "k", "=", "a", "=", "b", "]">>,
      <<"[", "k", "=", "a", "=", "b", "]">>,
      S_span \o <<"[", "k", "]">>,
      S_div \o <<"[">> \o S_class \o <<"=">> \o S_bar \o <<"]">>,
      S_root }

InitSel == InitFresh /\ content = SampleDoc

\* Selector(t)
Construct(t) ==
    /\ phase = "ready"
    /\ cmd' = t
    /\ sel' = Selector(t)
    /\ res' = NoRes
    /\ UNCHANGED <<buildVars, queryVars, searchVars>>

\* sel.check_html_tag(n) for a node n of the tree, the root included
Check(n) ==
    /\ phase = "ready"
    /\ sel.exc = NoExc
    /\ n \in Range(Subtree(heap, root))
    /\ res' = [node |-> n, val |-> check_html_tag(sel, heap[n])]
    /\ UNCHANGED <<buildVars, queryVars, cmd, sel, searchVars>>

NextSel ==
    \/ FeedNext
    \/ FeedReturn
    \/ \E t \in Tokens : Construct(t)
    \/ \E n \in 1..Len(heap) : Check(n)

SpecSel == InitSel /\ [][NextSel]_vars

(***************************************************************************)
(* HtmlParser in use: documents parsed and re-parsed, queries selected     *)
(* with and without the cache, cached paths resolved.                      *)
(***************************************************************************)
MaxParses == 1   \* re-parses after the constructor's parse

\* <div><p><span></span></p></div>
DocNested ==
    <<OpenEv(S_div, <<>>), OpenEv(S_p, <<>>), OpenEv(S_span, <<>>),
      CloseEv(S_span), CloseEv(S_p), CloseEv(S_div)>>

\* <div class="foo bar"><div class="bar"><span></span></div><span></span></div>
DocClasses ==
    <<OpenEv(S_div, <<<<S_class, S_foobar>>>>), OpenEv(S_div, <<<<S_class, S_bar>>>>),
      OpenEv(S_span, <<>>), CloseEv(S_span), CloseEv(S_div),
      OpenEv(S_span, <<>>), CloseEv(S_span), CloseEv(S_div)>>

\* <p></p>
DocFlat == Elem(S_p, <<>>)

\* <div></p>: the close walks past the root and the parse fails
DocBroken == <<OpenEv(S_div, <<>>), CloseEv(S_p)>>

Docs == {DocNested, DocClasses, DocFlat, DocBroken}

Q_div_span == S_div \o <<" ">> \o S_span
Q_foo_span == <<".">> \o S_foo \o <<" ", " ">> \o S_span
Q_empty    == <<>>
Q_bad      == S_span \o <<"[", "k", "]">>

Queries == {Q_div_span, Q_foo_span, Q_empty, Q_bad}

NoCall == [exc |-> "nocall"]

\* HtmlParser.__init__: an empty cache, then parse(html_s); the object exists only
\* when that parse succeeds
InitQuery ==
    \E doc \in Docs :
        LET b == FeedAll(NewParser(<<>>), doc, 1)
        IN  /\ b.exc = NoExc
            /\ heap = b.heap
            /\ root = b.root
            /\ p_root = b.root
            /\ cur_tag = b.cur_tag
            /\ content = doc
            /\ pos = Len(doc) + 1
    /\ exc = NoExc
    /\ phase = "ready"
    /\ cache_dict = <<>>
    /\ cache_root = <<>>
    /\ nparse = 0
    /\ op = NoOp
    /\ ret = None
    /\ nopen = 0
    /\ strict = TRUE
    /\ enclosing = TRUE
    /\ unmatched = FALSE
    /\ event = NoEvent
    /\ work = <<>>
    /\ found = <<>>
    /\ cmd = <<>>
    /\ sel = NoSel
    /\ res = NoRes

\* HtmlParser.parse(html_s=doc): a new builder is fed the whole document; the root
\* is replaced only when feed returns
Parse(doc) ==
    /\ nparse < MaxParses
    /\ LET b == FeedAll(NewParser(heap), doc, 1)
       IN  /\ heap' = b.heap
           /\ p_root' = b.root
           /\ cur_tag' = b.cur_tag
           /\ root' = IF b.exc = NoExc THEN b.root ELSE root
           /\ ret' = [exc |-> b.exc, val |-> None]
    /\ content' = doc
    /\ pos' = Len(doc) + 1
    /\ nparse' = nparse + 1
    /\ op' = [name |-> "parse"]
    /\ UNCHANGED <<exc, phase, cache_dict, cache_root, nopen, strict, enclosing,
                   unmatched, event, selVars, searchVars>>

\* HtmlParser.select(q, cache=use_cache)
Select(q, use_cache) ==
    LET r   == hp_select(heap, root, cache_dict, q, use_cache)
        hit == use_cache /\ q \in DOMAIN cache_dict
    IN  /\ cache_dict' = r.cache_dict
        /\ cache_root' = IF ~hit /\ r.exc = NoExc THEN DictPut(cache_root, q, root)
                         ELSE cache_root
        /\ ret' = [exc |-> r.exc, val |-> r.val]
        /\ op' = [name |-> "select", q |-> q, cache |-> use_cache, hit |-> hit,
                  stored_under |-> IF hit THEN cache_root[q] ELSE root,
                  first |-> IF use_cache /\ op.name = "select" /\ op.q = q /\ op.cache
                            THEN ret ELSE NoCall]
        /\ UNCHANGED <<buildVars, root, nparse, selVars, searchVars>>

\* HtmlParser.get_tags on the paths cached for q
GetTags(q) ==
    /\ q \in DOMAIN cache_dict
    /\ ret' = get_tags(heap, root, cache_dict[q])
    /\ op' = [name |-> "get_tags", q |-> q, stored_under |-> cache_root[q]]
    /\ UNCHANGED <<buildVars, root, cache_dict, cache_root, nparse, selVars, searchVars>>

\* HtmlParser.get_tag on the i-th path cached for q
GetTag(q, i) ==
    /\ q \in DOMAIN cache_dict
    /\ i \in 1..Len(cache_dict[q])
    /\ ret' = get_tag(heap, root, cache_dict[q][i])
    /\ op' = [name |-> "get_tag", q |-> q, path |-> cache_dict[q][i], node |-> None,
              stored_under |-> cache_root[q]]
    /\ UNCHANGED <<buildVars, root, cache_dict, cache_root, nparse, selVars, searchVars>>

NextQuery ==
    \/ \E doc \in Docs : Parse(doc)
    \/ \E q \in Queries, use_cache \in BOOLEAN : Select(q, use_cache)
    \/ \E q \in Queries : GetTags(q)
    \/ \E q \in Queries \cap DOMAIN cache_dict : \E i \in 1..Len(cache_dict[q]) : GetTag(q, i)

SpecQuery == InitQuery /\ [][NextQuery]_vars

(***************************************************************************)
(* C1.                                                                     *)
(***************************************************************************)
\* the whole scripted stream has been fed without an exception
Fed == pos > Len(content) /\ exc = NoExc

\* the stream is open(a) open(b) open(c) [text or comment] close(a), a, b, c distinct
MismatchCase ==
    /\ Len(content) >= 4
    /\ content[1].name # content[2].name
    /\ content[1].name # content[3].name
    /\ content[2].name # content[3].name
    /\ content[Len(content)].name = content[1].name

\* the nodes of a scripted parse, in creation order: the root, then a, b, c
NodeA == p_root + 1
NodeB == p_root + 2
NodeC == p_root + 3

\* the nodes reachable from the builder's root, the root included
InTree == Range(Subtree(heap, p_root))

\* C1 as stated: after open(a) open(b) open(c) [text("x")] close(a) the root's only
\* child is a, a has no children, and the text is in no node of the tree.
C1_AsStated ==
    (MismatchCase /\ Fed) =>
        /\ heap[p_root].children = <<NodeA>>
        /\ heap[NodeA].children = <<>>
        /\ \A n \in InTree : heap[n].text = <<>>

\* C1 amended: after open(a) open(b) open(c) [text("x")] close(a) the root's only
\* child is a; a's children are b, which stays where it was, and then c, which is
\* re-attached as an orphan; b and c are childless and have a as parent; the cursor
\* is the root; and the text fed while c was the cursor is still c's text.
C1_Recovery ==
    (MismatchCase /\ Fed) =>
        /\ heap[p_root].children = <<NodeA>>
        /\ heap[NodeA].children = <<NodeB, NodeC>>
        /\ heap[NodeB].children = <<>> /\ heap[NodeB].parent = NodeA
        /\ heap[NodeC].children = <<>> /\ heap[NodeC].parent = NodeA
        /\ cur_tag = p_root
        /\ (content[4].type = "text" => heap[NodeC].text = content[4].data)
        /\ (content[4].type = "comment" => heap[NodeC].comments = <<content[4].data>>)

\* the concrete case: open(div) open(span) open(em) text("x") close(div), all fed
C1_Witness ==
    /\ content = <<OpenEv(S_div, <<>>), OpenEv(S_span, <<>>), OpenEv(S_em, <<>>),
                   TextEv(S_x), CloseEv(S_div)>>
    /\ Fed
    /\ heap[NodeA].children = <<NodeB, NodeC>>

(***************************************************************************)
(* C2.                                                                     *)
(***************************************************************************)
\* C2 as stated: when every close named an element that was open at that moment,
\* the finished tree has as many descendants of the root as there were opens.
C2_AsStated ==
    (phase = "ready" /\ enclosing) => Cardinality(Descendants(heap, root)) = nopen

\* C2 for properly nested streams: when every close named the innermost open
\* element (the cursor), the finished tree has as many descendants of the root as
\* there were opens.
C2_ProperlyNested ==
    (phase = "ready" /\ strict) => Cardinality(Descendants(heap, root)) = nopen

\* a finished, properly nested parse of three or more elements, all of them closed
C2_Witness ==
    /\ phase = "ready"
    /\ strict
    /\ nopen >= 3
    /\ cur_tag = p_root
    /\ \E n \in Descendants(heap, root) : Len(heap[n].children) >= 2

(***************************************************************************)
(* C3.                                                                     *)
(***************************************************************************)
\* C3 as stated: a close that names no open element ends the parse with an error
\* at that event, also when the name is the root's own name "root".
C3_UnmatchedCloseFails == unmatched => exc # NoExc

(***************************************************************************)
(* C4.                                                                     *)
(***************************************************************************)
\* C4: for a node n of a tree built without failure, get_tag(n.get_path()) is n.
C4_PathRoundTrip ==
    (op.name = "get_tag" /\ op.node # None) => ret = [exc |-> NoExc, val |-> op.node]

\* a round trip through a two-level path, on a tree that went through recovery
C4_Witness ==
    /\ op.name = "get_tag"
    /\ op.node # None
    /\ ~strict
    /\ Len(op.path) >= 3
    /\ ret.val = op.node
    /\ IndexInParent(heap, op.node) >= 1

(***************************************************************************)
(* C6.                                                                     *)
(***************************************************************************)
\* the positions of character ch in token c, in increasing order
RECURSIVE PositionsFrom(_, _, _)
PositionsFrom(c, ch, i) ==
    IF i > Len(c) THEN <<>>
    ELSE (IF c[i] = ch THEN <<i>> ELSE <<>>) \o PositionsFrom(c, ch, i + 1)

\* the substring after position i up to the next '.', '#' or '[', or the end
Introduced(c, i) ==
    LET stops == {j \in (i + 1)..Len(c) : c[j] \in {".", "#", "["}}
        end   == IF stops = {} THEN Len(c) + 1
                 ELSE CHOOSE j \in stops : \A k \in stops : j <= k
    IN  SubSeq(c, i + 1, end - 1)

StatedClasses(c) ==
    LET ps == PositionsFrom(c, ".", 1)
    IN  [i \in 1..Len(ps) |-> Introduced(c, ps[i])]

StatedId(c) ==
    LET ps == PositionsFrom(c, "#", 1)
    IN  IF ps = <<>> THEN <<>> ELSE Introduced(c, ps[1])

\* C6 as stated: for every token, with or without a tag part, the class list is
\* the substrings after each '.' up to the next '.', '#', '[' or the end, in
\* order, and the id is the substring after the first '#' under the same rule.
C6_AsStated ==
    sel.exc = NoExc =>
        /\ Len(sel.cls) = Len(StatedClasses(cmd))
        /\ \A i \in 1..Len(sel.cls) : sel.cls[i] = StatedClasses(cmd)[i]
        /\ sel.id = StatedId(cmd)

(***************************************************************************)
(* C7.                                                                     *)
(***************************************************************************)
\* the class tokens of a node: none when it has no class attribute
ClassTokens(t) ==
    IF S_class \in DOMAIN t.attrs THEN Range(t.attrs[S_class].v) ELSE {}

\* C7: a node satisfies a predicate exactly when the predicate's tag is empty or
\* the node's tag, its id is empty or the node's id attribute, each of its classes
\* is among the node's class tokens, and each of its attribute keys is on the node
\* with an equal value.
C7_PredicateTest ==
    res.node # None =>
        LET t == heap[res.node]
        IN  res.val <=>
              /\ (sel.tag = <<>> \/ sel.tag = t.tag)
              /\ (sel.id = <<>> \/ (S_id \in DOMAIN t.attrs /\ t.attrs[S_id] = Plain(sel.id)))
              /\ Range(sel.cls) \subseteq ClassTokens(t)
              /\ \A key \in DOMAIN sel.attrs :
                    key \in DOMAIN t.attrs /\ t.attrs[key].kind = "str"
                    /\ t.attrs[key].v = sel.attrs[key]

\* "div.foo" matched against the div whose class tokens are foo and bar
C7_Witness ==
    /\ cmd = S_div \o <<".">> \o S_foo
    /\ res.node # None
    /\ heap[res.node].tag = S_div
    /\ ClassTokens(heap[res.node]) = {S_foo, S_bar}
    /\ res.val = TRUE

(***************************************************************************)
(* C10.                                                                    *)
(***************************************************************************)
\* the contents of the bracketed parts of token c, in order
RECURSIVE Bracketed(_, _)
Bracketed(c, i) ==
    IF i > Len(c) THEN <<>>
    ELSE IF c[i] = "[" /\ \E j \in (i + 1)..Len(c) : c[j] = "]"
         THEN LET j == CHOOSE j \in (i + 1)..Len(c) :
                           c[j] = "]" /\ \A k \in (i + 1)..(j - 1) : c[k] # "]"
              IN  <<SubSeq(c, i + 1, j - 1)>> \o Bracketed(c, j + 1)
    ELSE Bracketed(c, i + 1)

\* key and value of a bracketed part, split at its first '='
FirstEq(a) == CHOOSE i \in 1..Len(a) : a[i] = "=" /\ \A k \in 1..(i - 1) : a[k] # "="

RECURSIVE StatedAttrs(_, _, _)
StatedAttrs(parts, i, d) ==
    IF i > Len(parts) THEN d
    ELSE StatedAttrs(parts, i + 1,
                     DictPut(d, SubSeq(parts[i], 1, FirstEq(parts[i]) - 1),
                             SubSeq(parts[i], FirstEq(parts[i]) + 1, Len(parts[i]))))

\* C10 as stated: a token with a tag part whose bracketed parts all hold an '=' is
\* accepted, and each part is split into key and value at its first '='.
C10_AsStated ==
    LET parts == Bracketed(cmd, 1)
    IN  (/\ sel.exc # "unset"
         /\ clean_tag(cmd) # <<>>
         /\ parts # <<>>
         /\ \A i \in 1..Len(parts) : InStr("=", parts[i])) =>
            /\ sel.exc = NoExc
            /\ sel.attrs = StatedAttrs(parts, 1, <<>>)

(***************************************************************************)
(* C5.                                                                     *)
(***************************************************************************)
\* the nodes of the current tree, the root included
TreeNodes == Range(Subtree(heap, root))

\* the proper ancestors of n, by parent references
Ancestors(n) == Range(Tail(Chain(heap, n)))

\* the nodes that end a chain a1, ..., ak with ai satisfying the i-th predicate and
\* ai a proper ancestor of a(i+1)
RECURSIVE ChainEnds(_, _)
ChainEnds(chain, k) ==
    IF k = 1 THEN {n \in TreeNodes : check_html_tag(chain[1], heap[n])}
    ELSE {n \in TreeNodes :
            /\ check_html_tag(chain[k], heap[n])
            /\ \E a \in ChainEnds(chain, k - 1) : a \in Ancestors(n)}

\* C5: a select that searches the tree returns exactly the nodes that end a chain
\* of nodes satisfying the predicates in order, each a proper ancestor, at any
\* depth, of the next.
C5_DescendantAnyDepth ==
    (op.name = "select" /\ ~op.hit /\ ret.exc = NoExc) =>
        Range(ret.val) = ChainEnds(parse(op.q).val, Len(parse(op.q).val))

\* select("div span") on div > p > span returns the span, two levels under the div
C5_Witness ==
    /\ op.name = "select"
    /\ ~op.hit
    /\ op.q = Q_div_span
    /\ content = DocNested
    /\ ret.exc = NoExc
    /\ Len(ret.val) = 1
    /\ heap[ret.val[1]].tag = S_span
    /\ heap[heap[ret.val[1]].parent].tag = S_p
    /\ heap[heap[heap[ret.val[1]].parent].parent].tag = S_div

(***************************************************************************)
(* C8.                                                                     *)
(***************************************************************************)
\* C8 as stated: when select(q, cache=True) has returned and is called again right
\* away, the second call decodes every stored path without error and returns the
\* same sequence of nodes.
C8_AsStated ==
    (op.name = "select" /\ op.cache /\ op.first.exc = NoExc) =>
        (ret.exc = NoExc /\ ret.val = op.first.val)

(***************************************************************************)
(* C9.                                                                     *)
(***************************************************************************)
\* the nodes the last call returned
Returned == IF op.name = "get_tag" THEN {ret.val} ELSE Range(ret.val)

\* the last call resolved paths that were cached under an earlier tree
ResolvedStale ==
    /\ op.name \in {"get_tag", "get_tags", "select"}
    /\ op.name = "select" => op.hit
    /\ op.stored_under # root

\* C9 as stated: resolving a path cached before the re-parse either fails with an
\* out-of-range index or returns a node of the new tree.
C9_AsStated ==
    ResolvedStale =>
        \/ ret.exc = "IndexError"
        \/ ret.exc = NoExc /\ Returned \subseteq TreeNodes

(***************************************************************************)
(* C11.                                                                    *)
(***************************************************************************)
\* C11 as stated: whatever the query and the tree, the result of a select does
\* not contain the synthetic root.
C11_AsStated ==
    (op.name = "select" /\ ret.exc = NoExc) => root \notin Range(ret.val)

(***************************************************************************)
(* C12.                                                                    *)
(***************************************************************************)
\* the query has a token with a bracketed part that holds no '='
MalformedAttr(q) ==
    \E i \in 1..Len(Split(q, " ")) :
        \E a \in Range(Bracketed(Split(q, " ")[i], 1)) : ~InStr("=", a)

C13_AsStated ==
    [][(op'.name = "select" /\ ~op'.cache) => cache_dict' = cache_dict]_vars

(***************************************************************************)
(* C19.                                                                    *)
(***************************************************************************)
\* C19 as stated: the sequence a search returns holds each node at most once.
C19_AsStated ==
    (op.name = "select" /\ ~op.hit /\ ret.exc = NoExc) =>
        \A i, j \in 1..Len(ret.val) : ret.val[i] = ret.val[j] => i = j

(***************************************************************************)
(* C14.                                                                    *)
(***************************************************************************)
\* every index of index_list, walked down from tag, lies in 0..(len - 1)
RECURSIVE InRange(_, _, _, _)
InRange(h, tag, index_list, i) ==
    IF i > Len(index_list) THEN TRUE
    ELSE /\ index_list[i] >= 0
         /\ index_list[i] < Len(h[tag].children)
         /\ InRange(h, h[tag].children[index_list[i] + 1], index_list, i + 1)

\* C14 as stated: get_tag fails, and returns no node, whenever an index of the
\* path lies outside 0..(len - 1) of the child list it is applied to.
C14_AsStated ==
    LET index_list == IndexList(Split(op.path, ":"), 1, <<>>)
    IN  (/\ op.name = "get_tag"
         /\ index_list.exc = NoExc
         /\ ~InRange(heap, root, index_list.val, 1)) =>
            (ret.exc # NoExc /\ ret.val = None)

(***************************************************************************)
(* C15.                                                                    *)
(***************************************************************************)
\* the step handled a close event that found its target
ClosedStep ==
    /\ phase = "feeding"
    /\ phase' = "feeding"
    /\ exc = NoExc
    /\ exc' = NoExc
    /\ event'.type = "close"

\* position on the cursor's chain of the nearest node named name
TargetPos(h, cur, name) ==
    CHOOSE i \in 1..Len(Chain(h, cur)) :
        /\ h[Chain(h, cur)[i]].tag = name
        /\ \A k \in 1..(i - 1) : h[Chain(h, cur)[k]].tag # name

\* the nodes visited strictly below the target, the cursor first
Visited(h, cur, name) == SubSeq(Chain(h, cur), 1, TargetPos(h, cur, name) - 1)

Target(h, cur, name) == Chain(h, cur)[TargetPos(h, cur, name)]

\* the orphans: the children of the visited nodes
Orphans(h, cur, name) ==
    UNION {Range(h[v].children) : v \in Range(Visited(h, cur, name))}

\* C15: after a close that finds its target, the target's child list is its old
\* child list followed by all the orphans, every orphan has the target as parent
\* and no children, every visited node has no children, and the cursor is the
\* target's parent.
C15_CloseEffect ==
    [][ClosedStep =>
          LET target == Target(heap, cur_tag, event'.name)
              old    == heap[target].children
              new    == heap'[target].children
              added  == SubSeq(new, Len(old) + 1, Len(new))
              tags   == Orphans(heap, cur_tag, event'.name)
          IN  /\ SubSeq(new, 1, Len(old)) = old
              /\ Range(added) = tags
              /\ Len(added) = Cardinality(tags)
              /\ \A t \in tags : heap'[t].parent = target /\ heap'[t].children = <<>>
              /\ \A v \in Range(Visited(heap, cur_tag, event'.name)) :
                     heap'[v].children = <<>>
              /\ cur_tag' = heap[target].parent]_vars

\* a close two levels above the cursor has moved one orphan under a target that
\* already had a child
C15_Witness ==
    /\ phase = "feeding"
    /\ exc = NoExc
    /\ event.type = "close"
    /\ ~strict
    /\ \E t \in 1..Len(heap) :
          /\ heap[t].tag = event.name
          /\ cur_tag = heap[t].parent
          /\ Len(heap[t].children) = 2
          /\ \A i \in 1..2 : heap[heap[t].children[i]].parent = t
          /\ \A i \in 1..2 : heap[heap[t].children[i]].children = <<>>

(***************************************************************************)
(* C16.                                                                    *)
(***************************************************************************)
\* the orphans with the children of a visited node nearer the target first
RECURSIVE OuterFirst(_, _, _)
OuterFirst(h, visited, i) ==
    IF i = 0 THEN <<>>
    ELSE h[visited[i]].children \o OuterFirst(h, visited, i - 1)

\* C16 as stated: the orphans are appended outer-to-inner, the children of one
\* node in their document order.
C16_AsStated ==
    [][ClosedStep =>
          LET target == Target(heap, cur_tag, event'.name)
              old    == heap[target].children
              new    == heap'[target].children
              visited == Visited(heap, cur_tag, event'.name)
          IN  SubSeq(new, Len(old) + 1, Len(new)) =
                  OuterFirst(heap, visited, Len(visited))]_vars

(***************************************************************************)
(* C18.                                                                    *)
(***************************************************************************)
\* C18 as stated: while the stream is processed without failure, every node an
\* open event created is reachable from the root.
C18_AsStated ==
    exc = NoExc => \A n \in 1..Len(heap) : n \in Range(Subtree(heap, p_root))

(***************************************************************************)
(* C17.                                                                    *)
(***************************************************************************)
\* the places <<owner, position>> where n stands in a child list
Occurrences(h, n) ==
    {oi \in (1..Len(h)) \X (1..Len(h)) :
        oi[2] <= Len(h[oi[1]].children) /\ h[oi[1]].children[oi[2]] = n}

\* C17: after every event processed without failure the root has no parent, and
\* every other node reachable from the root stands in exactly one child list,
\* exactly once, and has the owner of that list as its parent.
C17_WellFormed ==
    exc = NoExc =>
        /\ heap[p_root].parent = None
        /\ \A n \in Descendants(heap, p_root) :
               /\ n # p_root
               /\ Cardinality(Occurrences(heap, n)) = 1
               /\ \A oi \in Occurrences(heap, n) : heap[n].parent = oi[1]

\* a tree that holds a text or a comment after a close with recovery moved an
\* orphan under an ancestor of its old parent
C17_Witness ==
    /\ exc = NoExc
    /\ ~strict
    /\ event.type = "close"
    /\ NotesIn(heap, 1) >= 1
    /\ \E n \in Descendants(heap, p_root) :
          /\ heap[n].parent # n - 1
          /\ heap[n].parent # None

(***************************************************************************)
(* HtmlTag.select run one iteration of its while loop at a time.           *)
(***************************************************************************)
SearchDocs    == {doc \in Docs \cup {SampleDoc} : FeedAll(NewParser(<<>>), doc, 1).exc = NoExc}
SearchQueries == {c \in Queries \cup {S_span, S_div} : parse(c).exc = NoExc}

\* root.select(c) after lines 225-228: the root is in the queue, results is empty
InitSearch ==
    \E doc \in SearchDocs, c \in SearchQueries :
        LET b == FeedAll(NewParser(<<>>), doc, 1)
        IN  /\ heap = b.heap
            /\ root = b.root
            /\ p_root = b.root
            /\ cur_tag = b.cur_tag
            /\ content = doc
            /\ pos = Len(doc) + 1
            /\ op = [name |-> "search", q |-> c]
            /\ work = <<[html_tag |-> b.root, selectors |-> parse(c).val]>>
    /\ found = <<>>
    /\ exc = NoExc
    /\ phase = "ready"
    /\ cache_dict = <<>>
    /\ cache_root = <<>>
    /\ nparse = 0
    /\ ret = NoCall
    /\ nopen = 0
    /\ strict = TRUE
    /\ enclosing = TRUE
    /\ unmatched = FALSE
    /\ event = NoEvent
    /\ cmd = <<>>
    /\ sel = NoSel
    /\ res = NoRes

\* one pass through the body of `while not q.empty()`
SearchLoop ==
    /\ op.name = "search"
    /\ work # <<>>
    /\ work' = bfs_step(heap, work, found).q
    /\ found' = bfs_step(heap, work, found).results
    /\ UNCHANGED <<buildVars, queryVars, selVars>>

\* `return results`, line 244
SearchReturn ==
    /\ op.name = "search"
    /\ work = <<>>
    /\ op' = [op EXCEPT !.name = "searched"]
    /\ ret' = [exc |-> NoExc, val |-> found]
    /\ UNCHANGED <<buildVars, root, cache_dict, cache_root, nparse, selVars, searchVars>>

NextSearch == SearchLoop \/ SearchReturn

SpecSearch == InitSearch /\ [][NextSearch]_vars

\* the loop is sequential code: while the queue is not empty it runs again
SpecSearchLive == SpecSearch /\ WF_vars(SearchLoop)

(***************************************************************************)
(* C20.                                                                    *)
(***************************************************************************)
\* the depth of n: the number of its proper ancestors
Depth(h, n) == Len(Chain(h, n)) - 1

\* the nodes recorded so far stand in nondecreasing depth
DepthOrdered ==
    \A i, j \in 1..Len(found) : i < j => Depth(heap, found[i]) <= Depth(heap, found[j])

\* C20: the work queue of a search becomes empty, and at every moment the nodes
\* recorded so far are in nondecreasing tree depth.
C20_EmptiesInDepthOrder == <>(work = <<>>) /\ []DepthOrdered

\* a finished search that recorded nodes of two depths, the deeper one twice
C20_Witness ==
    /\ op.name = "searched"
    /\ ret.val = select(heap, root, op.q).val
    /\ \E i, j, k \in 1..Len(found) :
          /\ i < j
          /\ j < k
          /\ Depth(heap, found[i]) < Depth(heap, found[j])
          /\ found[j] = found[k]

====
